---- MODULE Spec2Model ----
(***************************************************************************)
(* flutter_checker_rust: model of src/main.rs.                             *)
(*                                                                         *)
(* Text is a sequence of symbols.  A symbol is a whitespace character      *)
(* (" ", "\n", "\r") , the path separator "/", or a word without           *)
(* whitespace and separators.  Option<T> is a sequence of length <= 1:     *)
(* None is <<>>, Some(x) is <<x>>.                                         *)
(***************************************************************************)
EXTENDS Integers, Sequences, FiniteSets, TLC

None == <<>>
Some(x) == <<x>>
IsSome(o) == Len(o) = 1
Unwrap(o) == o[1]

(* ------------------------------ text ---------------------------------- *)

Whitespace == {" ", "\n", "\r", "\t"}

(* str::trim: strips leading and trailing whitespace *)
RECURSIVE TrimStart(_)
TrimStart(s) ==
    IF s # <<>> /\ Head(s) \in Whitespace THEN TrimStart(Tail(s)) ELSE s

RECURSIVE TrimEnd(_)
TrimEnd(s) ==
    IF s # <<>> /\ s[Len(s)] \in Whitespace
    THEN TrimEnd(SubSeq(s, 1, Len(s) - 1)) ELSE s

Trim(s) == TrimEnd(TrimStart(s))

(* str::split(sep): the pieces between occurrences of sep; never empty *)
RECURSIVE Split(_, _)
Split(s, sep) ==
    IF \E i \in 1..Len(s) : s[i] = sep
    THEN LET i == CHOOSE k \in 1..Len(s) :
                     s[k] = sep /\ \A j \in 1..(k - 1) : s[j] # sep
         IN  <<SubSeq(s, 1, i - 1)>> \o Split(SubSeq(s, i + 1, Len(s)), sep)
    ELSE <<s>>

(* Iterator::nth(n), n counted from 0 *)
Nth(seq, n) == IF n + 1 <= Len(seq) THEN Some(seq[n + 1]) ELSE None

(* ------------------------------ paths --------------------------------- *)

(* the path separator (on windows `\` as well; one symbol stands for both) *)
Sep == "/"

LastSep(p) ==
    IF \E i \in 1..Len(p) : p[i] = Sep
    THEN CHOOSE i \in 1..Len(p) : p[i] = Sep /\ \A j \in (i + 1)..Len(p) : p[j] # Sep
    ELSE 0

(* Path::parent: the path without its final component; None when the path *)
(* is a root or empty; Some("") for a single relative component           *)
Parent(p) ==
    IF \A i \in 1..Len(p) : p[i] = Sep THEN None
    ELSE LET i == LastSep(p)
         IN  IF i = 0 THEN Some(<<>>)
             ELSE IF i = 1 THEN Some(<<Sep>>)
             ELSE Some(SubSeq(p, 1, i - 1))

(* --------------------------- platform --------------------------------- *)

(* every value env::consts::OS is matched against, and one that is not *)
OSes == {"linux", "macos", "windows", "other"}

(* shell_run: "windows" | "macos" | "linux" get a shell, anything else is *)
(* Err(OSNotSupported)                                                    *)
ShellSupported(o) == o \in {"windows", "macos", "linux"}

(* ------------------- what the subprocesses can answer ----------------- *)

Line(words) == words \o <<"\n">>

SdkFlutter == <<"/", "sdk", "/", "bin", "/", "flutter">>
AltFlutter == <<"/", "alt", "/", "bin", "/", "flutter">>
WinFlutter == <<"C:", "/", "sdk", "/", "bin", "/", "flutter">>
UsrGit     == <<"/", "usr", "/", "bin", "/", "git">>
WinGit     == <<"C:", "/", "git", "/", "cmd", "/", "git.exe">>

Exited(success, stdout, stderr) ==
    [success |-> success, stdout |-> stdout, stderr |-> stderr]

(* `which <tool>` (silent when the tool is not on PATH) and `where <tool>` *)
(* (one line per match; a diagnostic on stderr when there is no match)     *)
LocateOutputs(tool, o) ==
    IF o = "windows"
    THEN {Exited(TRUE,
                 (IF tool = "flutter"
                  THEN WinFlutter \o <<"\r", "\n">> \o WinFlutter \o <<".bat", "\r", "\n">>
                  ELSE WinGit \o <<"\r", "\n">>),
                 <<>>),
          Exited(FALSE, <<>>, <<"INFO:", " ", "Could", " ", "not", " ", "find", " ", "files", "\r", "\n">>)}
    ELSE {Exited(TRUE, Line(IF tool = "flutter" THEN SdkFlutter ELSE UsrGit), <<>>),
          Exited(FALSE, <<>>, <<>>)}
         \cup (IF tool = "flutter" THEN {Exited(TRUE, Line(AltFlutter), <<>>)} ELSE {})

(* `flutter --version` *)
VersionOutputs ==
    {Exited(TRUE, Line(<<"Flutter", " ", "3.19.0", " ", "stable">>)
                    \o Line(<<"Tools", " ", "Dart", " ", "3.3.0">>), <<>>),
     Exited(TRUE, Line(<<"Flutter", " ", "3.29.0", " ", "stable">>)
                    \o Line(<<"Tools", " ", "Dart", " ", "3.7.0">>), <<>>),
     Exited(TRUE, <<>>, <<>>),
     Exited(FALSE, <<>>, Line(<<"sh:", " ", "flutter:", " ", "not", " ", "found">>))}

(* what environment.flutter of ./pubspec.yaml can hold; None when the     *)
(* file, the key path or a string value is missing                        *)
ManifestValues ==
    {None, Some(<<>>), Some(<<"beta">>), Some(<<"master">>), Some(<<"3.19.0">>)}

(* --desiredVersion *)
OverrideValues ==
    {None, Some(<<>>), Some(<<" ">>), Some(<<"stable">>), Some(<<"main">>),
     Some(<<"3.29.0">>), Some(<<"None">>)}

(* --workingDirectory: absent, a directory, or not a directory *)
WorkingDirValues == {None, Some(<<"proj">>), Some(<<"missing">>)}

DirExists(dir) == dir # <<"missing">>

(* ----------------------------- shell_run ------------------------------ *)

(* Ok(stdout ++ stderr) whatever the exit status *)
ShellOutput(r) == r.stdout \o r.stderr

(* ------------------------------ lookups ------------------------------- *)

(* the futures of join! in run and of join_all in Status::update, in the  *)
(* order they are written: none of them ever returns Pending              *)
(* (command.output() blocks the thread), so the executor runs each to     *)
(* completion in this order                                               *)
DetectJoin == <<"flutter_command", "git_command">>
StatusJoin == <<"project_version", "flutter_version", "flutter_path", "flutter_root_path">>

Range(q) == {q[i] : i \in 1..Len(q)}

DetectLookups == Range(DetectJoin)
StatusLookups == Range(StatusJoin)

LocateCommand(tool, o) ==
    IF o = "windows" THEN <<"where", " ", tool>> ELSE <<"which", " ", tool>>

FlutterVersionCommand == <<"flutter", " ", "--version">>

(* the command line a lookup hands to shell_run *)
LookupCommand(l, o) ==
    IF l = "flutter_version" THEN FlutterVersionCommand
    ELSE IF l = "git_command" THEN LocateCommand("git", o)
    ELSE LocateCommand("flutter", o)

LookupOutputs(l, o) ==
    IF l = "flutter_version" THEN VersionOutputs
    ELSE IF l = "git_command" THEN LocateOutputs("git", o)
    ELSE LocateOutputs("flutter", o)

(* get_flutter_command_path / get_git_command_path on the text shell_run  *)
(* returned: first line trimmed on windows, the whole output trimmed      *)
(* elsewhere; None when that is empty                                     *)
CommandPathOf(output, o) ==
    LET path == IF o = "windows"
                THEN Trim(Unwrap(Nth(Split(output, "\n"), 0)))
                ELSE Trim(output)
    IN  IF path = <<>> THEN None ELSE Some(path)

(* get_flutter_path: parent of the located launcher *)
FlutterPathOf(output, o) ==
    LET c == CommandPathOf(output, o)
    IN  IF IsSome(c) THEN Parent(Unwrap(c)) ELSE None

(* get_flutter_root_path: parent of what get_flutter_path returns *)
FlutterRootPathOf(output, o) ==
    LET p == FlutterPathOf(output, o)
    IN  IF IsSome(p) THEN Parent(Unwrap(p)) ELSE None

(* get_flutter_version: split("\n").nth(0)?.split(" ").nth(1)?.trim() *)
FlutterVersionOf(output) ==
    LET line == Nth(Split(output, "\n"), 0)
    IN  IF ~IsSome(line) THEN None
        ELSE LET tok == Nth(Split(Unwrap(line), " "), 1)
             IN  IF ~IsSome(tok) THEN None ELSE Some(Trim(Unwrap(tok)))

(* the value a lookup returns for the text its shell_run returned *)
LookupValue(l, output, o) ==
    IF l = "flutter_version" THEN FlutterVersionOf(output)
    ELSE IF l = "flutter_path" THEN FlutterPathOf(output, o)
    ELSE IF l = "flutter_root_path" THEN FlutterRootPathOf(output, o)
    ELSE CommandPathOf(output, o)

(* ----------------------- change_flutter_version ----------------------- *)

Channels == {<<"stable">>, <<"beta">>, <<"main">>, <<"master">>}

WorkaroundVersion == <<"3.29.0">>

ChannelCommand(version) == <<"flutter", " ", "channel", " ">> \o version
GitReset == <<"git", " ", "reset", " ", "--hard">>
GitFetch == <<"git", " ", "fetch">>
GitCheckout(version) == <<"git", " ", "checkout", " ">> \o version
WorkaroundWindows == <<"del", " ", ".\\engine\\src\\.gn">>
WorkaroundUnix == <<"rm", " ", "-rf", " ", "./engine/src/.gn">>
FlutterDoctor == <<"flutter", " ", "doctor">>
FlutterClean == <<"flutter", " ", "clean">>
FlutterPubUpgrade == <<"flutter", " ", "pub", " ", "upgrade">>
PodInstall == <<"pod", " ", "install">>
IosDir == <<".", "/", "ios">>

(* one shell_run call of change_flutter_version: its command line, its    *)
(* cwd argument, and whether its Err is propagated with `?` or dropped    *)
(* with `let _ =`                                                         *)
Call(cmd, cwd, propagate) == [cmd |-> cmd, cwd |-> cwd, propagate |-> propagate]

ChannelCalls(version) == <<Call(ChannelCommand(version), None, TRUE)>>


(* CheckoutCalls with the checkout issued before the fetch *)
CheckoutCallsCheckoutFirst(version, st) ==
    <<Call(GitReset, st.flutter_path, TRUE),
      Call(GitCheckout(version), st.flutter_path, TRUE),
      Call(GitFetch, st.flutter_path, TRUE),
      Call(GitReset, st.flutter_path, TRUE)>>

CheckoutCalls(version, st) ==
    <<Call(GitReset, st.flutter_path, TRUE),
      Call(GitFetch, st.flutter_path, TRUE),
      Call(GitCheckout(version), st.flutter_path, TRUE),
      Call(GitReset, st.flutter_path, TRUE)>>


(* WorkaroundCalls keyed on every pinned release instead of "3.29.0" *)
WorkaroundCallsAnyRelease(version, st, o) ==
    IF version \in {<<"3.29.0">>, <<"3.19.0">>}
    THEN IF o = "windows"
         THEN <<Call(WorkaroundWindows, st.flutter_root_path, FALSE)>>
         ELSE IF o \in {"macos", "linux"}
         THEN <<Call(WorkaroundUnix, st.flutter_root_path, FALSE)>>
         ELSE <<>>
    ELSE <<>>

(* WorkaroundCalls with `?` on the workaround's shell_run *)
WorkaroundCallsPropagating(version, st, o) ==
    IF version = WorkaroundVersion
    THEN IF o = "windows"
         THEN <<Call(WorkaroundWindows, st.flutter_root_path, TRUE)>>
         ELSE IF o \in {"macos", "linux"}
         THEN <<Call(WorkaroundUnix, st.flutter_root_path, TRUE)>>
         ELSE <<>>
    ELSE <<>>

WorkaroundCalls(version, st, o) ==
    IF version = WorkaroundVersion
    THEN IF o = "windows"
         THEN <<Call(WorkaroundWindows, st.flutter_root_path, FALSE)>>
         ELSE IF o \in {"macos", "linux"}
         THEN <<Call(WorkaroundUnix, st.flutter_root_path, FALSE)>>
         ELSE <<>>
    ELSE <<>>


(* ProjectCalls with the Err of `flutter clean` dropped *)
ProjectCallsCleanIgnored ==
    <<Call(FlutterDoctor, None, TRUE),
      Call(FlutterClean, None, FALSE),
      Call(FlutterPubUpgrade, None, TRUE)>>

ProjectCalls ==
    <<Call(FlutterDoctor, None, TRUE),
      Call(FlutterClean, None, TRUE),
      Call(FlutterPubUpgrade, None, TRUE)>>

(* PodCalls on every unix platform *)
PodCallsAnyUnix(o) ==
    IF o \in {"macos", "linux"} THEN <<Call(PodInstall, Some(IosDir), TRUE)>> ELSE <<>>

PodCalls(o) ==
    IF o = "macos" THEN <<Call(PodInstall, Some(IosDir), TRUE)>> ELSE <<>>


(* Calls without the early return of the channel arm *)
CallsChannelFallsThrough(version, st, o) ==
    IF version \in Channels
    THEN ChannelCalls(version) \o ProjectCalls \o PodCalls(o)
    ELSE CheckoutCalls(version, st) \o WorkaroundCalls(version, st, o)
           \o ProjectCalls \o PodCalls(o)

(* the shell_run calls change_flutter_version(version, status) makes, in  *)
(* program order, when none of them returns Err                           *)
Calls(version, st, o) ==
    IF version \in Channels
    THEN ChannelCalls(version)
    ELSE CheckoutCalls(version, st) \o WorkaroundCalls(version, st, o)
           \o ProjectCalls \o PodCalls(o)

(* ------------------------------- run ---------------------------------- *)

(* run's choice of the version it hands to change_flutter_version: the    *)
(* override when Some and not is_empty(), else the project version when   *)
(* Some and not is_empty(), else nothing                                  *)
DesiredOf(override, project_version) ==
    IF IsSome(override) /\ Unwrap(override) # <<>> THEN override
    ELSE IF IsSome(project_version) /\ Unwrap(project_version) # <<>> THEN project_version
    ELSE None

(* status.flutter_version.as_deref().unwrap_or("None") *)
VersionOrNone(flutter_version) ==
    IF IsSome(flutter_version) THEN Unwrap(flutter_version) ELSE <<"None">>


(* AlreadySynced with the comparison inverted *)
AlreadySyncedInverted(version, flutter_version) == version # VersionOrNone(flutter_version)

(* desired_version == status.flutter_version...unwrap_or("None") *)
AlreadySynced(version, flutter_version) == version = VersionOrNone(flutter_version)

NewStatus ==
    [project_version |-> None, flutter_version |-> None,
     flutter_path |-> None, flutter_root_path |-> None]

NoProc == [cmd |-> <<>>, cwd |-> None, for |-> "none"]

VARIABLES
    os,              \* env::consts::OS
    args,            \* Args: working_dir, desired_version
    pc,              \* where run is
    pending,         \* futures of the current join that have not run yet
    running,         \* the subprocess command.output() is blocked on
    flutter_command, \* run's local: Option<Option<PathBuf>>, None until joined
    git_command,     \* run's local, likewise
    cwd,             \* the process working directory
    cwd_writes,      \* number of env::set_current_dir calls that succeeded
    status,          \* Status
    desired,         \* the version run resolved, None before and without one
    step,            \* index in Calls of the next shell_run of change_flutter_version
    last_result,     \* how the latest shell_run of change_flutter_version ended
    cmds,            \* the shell_run calls made with console_print = true
    spawn_calls,     \* number of command.output() calls so far
    not_on_path,     \* tools Detecting's locate command did not find (it failed or did not run)
    out,             \* the messages printed
    updates,         \* number of status.update() calls so far
    changes,         \* number of change_flutter_version calls so far
    version_output,  \* get_flutter_version alone: the text shell_run returned
    version_result,  \* get_flutter_version alone: what it returned for that text
    parse_pc         \* get_flutter_version alone: "off", "called" or "returned"

parse_vars == <<version_output, version_result, parse_pc>>

vars == <<os, args, pc, pending, running, flutter_command, git_command, cwd,
          cwd_writes, status, desired, step, last_result, cmds, spawn_calls,
          not_on_path, out, updates, changes, parse_vars>>

(* the state of the process before run is called *)
RunStart ==
    /\ pc = "detecting"
    /\ pending = DetectJoin
    /\ running = NoProc
    /\ flutter_command = None
    /\ git_command = None
    /\ cwd = <<"start">>
    /\ cwd_writes = 0
    /\ status = NewStatus
    /\ desired = None
    /\ step = 0
    /\ last_result = "none"
    /\ cmds = <<>>
    /\ spawn_calls = 0
    /\ not_on_path = {}
    /\ out = <<>>
    /\ updates = 0
    /\ changes = 0

Init ==
    /\ os \in OSes
    /\ args \in [working_dir : WorkingDirValues, desired_version : OverrideValues]
    /\ RunStart
    /\ version_output = <<>>
    /\ version_result = None
    /\ parse_pc = "off"

Message(msg, arg) == [msg |-> msg, arg |-> arg]

Idle == running = NoProc

ToolOf(l) == IF l = "git_command" THEN "git" ELSE "flutter"

(* not_on_path after lookup l: a tool of Detecting is not on PATH, as far *)
(* as its locate command tells, unless that command ran and succeeded     *)
Unlocated(l, located) ==
    IF l \in DetectLookups /\ ~located
    THEN not_on_path \cup {ToolOf(l)} ELSE not_on_path

(* Store that leaves a Status field alone when the lookup returned None *)
StoreOnlySome(l, v) ==
    /\ flutter_command' = IF l = "flutter_command" THEN v ELSE flutter_command
    /\ git_command' = IF l = "git_command" THEN v ELSE git_command
    /\ status' = IF l \in StatusLookups /\ IsSome(v) THEN [status EXCEPT ![l] = v] ELSE status
    /\ pending' = Tail(pending)

(* the assignment that ends a lookup: `self.<field> = ...` in              *)
(* Status::update, the tuple pattern of join! in run                       *)
Store(l, v) ==
    /\ flutter_command' = IF l = "flutter_command" THEN v ELSE flutter_command
    /\ git_command' = IF l = "git_command" THEN v ELSE git_command
    /\ status' = IF l \in StatusLookups THEN [status EXCEPT ![l] = v] ELSE status
    /\ pending' = Tail(pending)

Joining == pc \in {"detecting", "loading", "verifying"}

(* the lookup that runs next, when it is one that calls shell_run *)
NextShellLookup ==
    IF pending # <<>> /\ Head(pending) # "project_version" THEN {Head(pending)} ELSE {}

(* get_project_version: reads ./pubspec.yaml, no subprocess *)
LookupProjectVersion ==
    /\ Joining /\ Idle
    /\ pending # <<>> /\ Head(pending) = "project_version"
    /\ \E v \in ManifestValues : Store("project_version", v)
    /\ UNCHANGED <<os, args, pc, running, cwd, cwd_writes, desired, step,
                   last_result, cmds, spawn_calls, not_on_path, out>>
    /\ UNCHANGED <<updates, changes, parse_vars>>

(* a lookup on a platform without a shell: the `_ => None` arm of the     *)
(* locate lookups, Err(OSNotSupported).ok()? of get_flutter_version       *)
LookupUnsupported ==
    /\ Joining /\ Idle
    /\ ~ShellSupported(os)
    /\ \E l \in NextShellLookup :
          /\ Store(l, None)
          /\ not_on_path' = Unlocated(l, FALSE)
    /\ UNCHANGED <<os, args, pc, running, cwd, cwd_writes, desired, step,
                   last_result, cmds, spawn_calls, out>>
    /\ UNCHANGED <<updates, changes, parse_vars>>

(* a lookup calls shell_run(cmd, None, false) and command.output() starts *)
(* the subprocess                                                         *)
LookupSpawn ==
    /\ Joining /\ Idle
    /\ ShellSupported(os)
    /\ \E l \in NextShellLookup :
          running' = [cmd |-> LookupCommand(l, os), cwd |-> None, for |-> l]
    /\ spawn_calls' = spawn_calls + 1
    /\ UNCHANGED <<os, args, pc, pending, flutter_command, git_command, cwd,
                   cwd_writes, status, desired, step, last_result, cmds,
                   not_on_path, out>>
    /\ UNCHANGED <<updates, changes, parse_vars>>

(* command.output() returns Err: shell_run is Err(CommandFailed), the     *)
(* lookup's `.ok()?` makes it None                                        *)
LookupLaunchFailed ==
    /\ Joining /\ Idle
    /\ ShellSupported(os)
    /\ \E l \in NextShellLookup :
          /\ Store(l, None)
          /\ not_on_path' = Unlocated(l, FALSE)
    /\ spawn_calls' = spawn_calls + 1
    /\ UNCHANGED <<os, args, pc, running, cwd, cwd_writes, desired, step,
                   last_result, cmds, out>>
    /\ UNCHANGED <<updates, changes, parse_vars>>

(* the lookup's subprocess exits; the lookup parses stdout ++ stderr      *)
LookupExit ==
    /\ Joining
    /\ running.for \in DetectLookups \cup StatusLookups
    /\ \E r \in LookupOutputs(running.for, os) :
          /\ Store(running.for, LookupValue(running.for, ShellOutput(r), os))
          /\ not_on_path' = Unlocated(running.for, r.success)
    /\ running' = NoProc
    /\ UNCHANGED <<os, args, pc, cwd, cwd_writes, desired, step, last_result,
                   cmds, spawn_calls, out>>
    /\ UNCHANGED <<updates, changes, parse_vars>>

Joined == Idle /\ pending = <<>>

(* run, after join!: the two `== None` tests *)
CheckTools ==
    /\ pc = "detecting" /\ Joined
    /\ IF flutter_command = None
       THEN /\ out' = Append(out, Message("Flutter not found", None))
            /\ pc' = "done"
       ELSE IF git_command = None
       THEN /\ out' = Append(out, Message("Git not found", None))
            /\ pc' = "done"
       ELSE /\ out' = out
            /\ pc' = "set_cwd"
    /\ UNCHANGED <<os, args, pending, running, flutter_command, git_command,
                   cwd, cwd_writes, status, desired, step, last_result, cmds,
                   spawn_calls, not_on_path>>
    /\ UNCHANGED <<updates, changes, parse_vars>>

(* run: env::set_current_dir(working_dir) when given, Status::new(), and  *)
(* the start of the first status.update()                                 *)
SetWorkingDir ==
    /\ pc = "set_cwd"
    /\ IF IsSome(args.working_dir) /\ ~DirExists(Unwrap(args.working_dir))
       THEN /\ out' = Append(out, Message("Could not set the working directory", args.working_dir))
            /\ pc' = "done"
            /\ UNCHANGED <<cwd, cwd_writes, status, pending, updates>>
       ELSE /\ cwd' = IF IsSome(args.working_dir) THEN Unwrap(args.working_dir) ELSE cwd
            /\ cwd_writes' = IF IsSome(args.working_dir) THEN cwd_writes + 1 ELSE cwd_writes
            /\ status' = NewStatus
            /\ pending' = StatusJoin
            /\ updates' = updates + 1
            /\ pc' = "loading"
            /\ out' = out
    /\ UNCHANGED <<os, args, running, flutter_command, git_command, desired,
                   step, last_result, cmds, spawn_calls, not_on_path>>
    /\ UNCHANGED <<changes, parse_vars>>

(* run, after the first status.update(): status.print() and the two       *)
(* match arms up to the call of change_flutter_version                    *)
Compare ==
    /\ pc = "loading" /\ Joined
    /\ LET d == DesiredOf(args.desired_version, status.project_version)
           printed == Append(out, Message("Status", None))
       IN  /\ desired' = d
           /\ IF ~IsSome(d)
              THEN /\ out' = Append(printed, Message("No project version found", None))
                   /\ pc' = "done"
                   /\ step' = step
                   /\ changes' = changes
              ELSE IF AlreadySynced(Unwrap(d), status.flutter_version)
              THEN /\ out' = Append(printed, Message("Flutter version is already", d))
                   /\ pc' = "done"
                   /\ step' = step
                   /\ changes' = changes
              ELSE /\ out' = printed
                   /\ pc' = "reconciling"
                   /\ step' = 1
                   /\ changes' = changes + 1
    /\ UNCHANGED <<os, args, pending, running, flutter_command, git_command,
                   cwd, cwd_writes, status, last_result, cmds, spawn_calls,
                   not_on_path>>
    /\ UNCHANGED <<updates, parse_vars>>

Plan == Calls(Unwrap(desired), status, os)

Issued(c) == [cmd |-> c.cmd, cwd |-> c.cwd]

(* change_flutter_version: the next shell_run(cmd, cwd, true) starts its  *)
(* subprocess                                                             *)
ChangeSpawn ==
    /\ pc = "reconciling" /\ Idle
    /\ step <= Len(Plan)
    /\ ShellSupported(os)
    /\ running' = [cmd |-> Plan[step].cmd, cwd |-> Plan[step].cwd, for |-> "change"]
    /\ cmds' = Append(cmds, Issued(Plan[step]))
    /\ spawn_calls' = spawn_calls + 1
    /\ UNCHANGED <<os, args, pc, pending, flutter_command, git_command, cwd,
                   cwd_writes, status, desired, step, last_result, not_on_path, out>>
    /\ UNCHANGED <<updates, changes, parse_vars>>

(* shell_run is Err: with `?` change_flutter_version returns it and run   *)
(* prints it and returns; with `let _ =` the next statement runs          *)
ChangeLaunchFailed ==
    /\ pc = "reconciling" /\ Idle
    /\ step <= Len(Plan)
    /\ cmds' = Append(cmds, Issued(Plan[step]))
    /\ spawn_calls' = IF ShellSupported(os) THEN spawn_calls + 1 ELSE spawn_calls
    /\ last_result' = "launch_failed"
    /\ IF Plan[step].propagate
       THEN /\ out' = Append(out, Message("Could not change flutter version",
                                           Some(IF ShellSupported(os)
                                                THEN <<"CommandFailed">> \o Plan[step].cmd
                                                ELSE <<"OSNotSupported">>)))
            /\ pc' = "done"
            /\ step' = step
       ELSE /\ out' = out
            /\ pc' = pc
            /\ step' = step + 1
    /\ UNCHANGED <<os, args, pending, running, flutter_command, git_command,
                   cwd, cwd_writes, status, desired, not_on_path>>
    /\ UNCHANGED <<updates, changes, parse_vars>>

(* the subprocess exits: shell_run is Ok(text) whatever the exit status,  *)
(* and change_flutter_version drops the text                              *)
ChangeExit ==
    /\ pc = "reconciling"
    /\ running.for = "change"
    /\ \E success \in BOOLEAN :
          last_result' = IF success THEN "ok" ELSE "nonzero"
    /\ running' = NoProc
    /\ step' = step + 1
    /\ UNCHANGED <<os, args, pc, pending, flutter_command, git_command, cwd,
                   cwd_writes, status, desired, cmds, spawn_calls, not_on_path, out>>
    /\ UNCHANGED <<updates, changes, parse_vars>>

(* ChangeOk without the second status.update(): run prints the status it  *)
(* has and returns                                                        *)
ChangeOkWithoutRefresh ==
    /\ pc = "reconciling" /\ Idle
    /\ step > Len(Plan)
    /\ pc' = "done"
    /\ out' = Append(out, Message("Status", None))
    /\ last_result' = "none"
    /\ UNCHANGED <<os, args, pending, running, flutter_command, git_command, cwd,
                   cwd_writes, status, desired, step, cmds, spawn_calls,
                   not_on_path, updates, changes, parse_vars>>

(* ChangeOk that never finds the sequence finished *)
ChangeOkOffByOne ==
    /\ pc = "reconciling" /\ Idle
    /\ step > Len(Plan) + 1
    /\ pc' = "verifying"
    /\ pending' = StatusJoin
    /\ updates' = updates + 1
    /\ last_result' = "none"
    /\ UNCHANGED <<os, args, running, flutter_command, git_command, cwd,
                   cwd_writes, status, desired, step, cmds, spawn_calls,
                   not_on_path, out, changes, parse_vars>>

(* change_flutter_version returns Ok(()); run starts the second           *)
(* status.update()                                                        *)
ChangeOk ==
    /\ pc = "reconciling" /\ Idle
    /\ step > Len(Plan)
    /\ pc' = "verifying"
    /\ pending' = StatusJoin
    /\ updates' = updates + 1
    /\ last_result' = "none"
    /\ UNCHANGED <<os, args, running, flutter_command, git_command, cwd,
                   cwd_writes, status, desired, step, cmds, spawn_calls,
                   not_on_path, out>>
    /\ UNCHANGED <<changes, parse_vars>>

(* Verified that also puts the working directory back *)
VerifiedRestoringCwd ==
    /\ pc = "verifying" /\ Joined
    /\ out' = Append(out, Message("Status", None))
    /\ pc' = "done"
    /\ cwd' = <<"start">>
    /\ cwd_writes' = cwd_writes + 1
    /\ UNCHANGED <<os, args, pending, running, flutter_command, git_command,
                   status, desired, step, last_result, cmds,
                   spawn_calls, not_on_path>>
    /\ UNCHANGED <<updates, changes, parse_vars>>

(* run, after the second status.update(): status.print() and return *)
Verified ==
    /\ pc = "verifying" /\ Joined
    /\ out' = Append(out, Message("Status", None))
    /\ pc' = "done"
    /\ UNCHANGED <<os, args, pending, running, flutter_command, git_command,
                   cwd, cwd_writes, status, desired, step, last_result, cmds,
                   spawn_calls, not_on_path>>
    /\ UNCHANGED <<updates, changes, parse_vars>>

Next ==
    \/ LookupProjectVersion
    \/ LookupUnsupported
    \/ LookupSpawn
    \/ LookupLaunchFailed
    \/ LookupExit
    \/ CheckTools
    \/ SetWorkingDir
    \/ Compare
    \/ ChangeSpawn
    \/ ChangeLaunchFailed
    \/ ChangeExit
    \/ ChangeOk
    \/ Verified

Spec == Init /\ [][Next]_vars

(* ============================ properties ============================== *)

Last(q) == q[Len(q)]

WorkaroundCommands == {WorkaroundWindows, WorkaroundUnix}

(* the run resolved a pinned reference / a channel name *)
Pinned == IsSome(desired) /\ Unwrap(desired) \notin Channels
OnChannel == IsSome(desired) /\ Unwrap(desired) \in Channels

(* Compare has run and status still holds what the first refresh stored *)
FirstStatusHeld ==
    \/ pc = "reconciling"
    \/ /\ pc = "done" /\ out # <<>>
       /\ Last(out).msg \in {"No project version found", "Flutter version is already",
                             "Could not change flutter version"}

(* a step that is run's comparison of desired and probed version *)
ComparingStep == pc = "loading" /\ pc' # "loading"

(* C1: when the version the run resolved (override, else manifest value)  *)
(* equals the SDK version the first status refresh probed, the run makes  *)
(* no console shell_run call (channel, git, workaround, doctor, clean,    *)
(* pub upgrade, pod) and stops: the comparing step ends the run with an   *)
(* empty command log, and an ended run takes no further step.             *)
C1_SyncedRunIssuesNothing ==
    [][/\ pc # "done"
       /\ (ComparingStep /\ IsSome(desired') /\ desired' = status.flutter_version)
             => (pc' = "done" /\ cmds' = <<>>)]_vars

C1_Witness ==
    /\ pc = "done"
    /\ IsSome(desired) /\ desired = status.flutter_version
    /\ Last(out).msg = "Flutter version is already"
    /\ cmds = <<>>

(* C2: for a pinned (non-channel) reference the command log starts with   *)
(* git reset --hard, git fetch, git checkout <reference>, git reset       *)
(* --hard in that order; a workaround or doctor/clean/pub upgrade command *)
(* only comes after these four; and a command is only issued while no     *)
(* subprocess is in flight.                                               *)
C2_Order ==
    Pinned =>
        /\ \A i \in 1..Len(cmds) :
              /\ i <= 4 => cmds[i].cmd = <<GitReset, GitFetch,
                                           GitCheckout(Unwrap(desired)), GitReset>>[i]
              /\ cmds[i].cmd \in WorkaroundCommands
                                 \cup {FlutterDoctor, FlutterClean, FlutterPubUpgrade}
                    => i > 4
        /\ running.for = "change" => running.cmd = Last(cmds).cmd

(* C2: the pinned path issues reset, fetch, checkout, reset in that order *)
(* (C2_Order in every state), each command only once the previous         *)
(* subprocess has ended, and the log only ever grows by one command.      *)
C2_CheckoutSequenceOrdered ==
    /\ []C2_Order
    /\ [][cmds' # cmds => (Idle /\ cmds' = Append(cmds, Last(cmds')))]_vars

C2_Witness ==
    /\ Pinned
    /\ Len(cmds) = 5
    /\ cmds[5].cmd = FlutterDoctor
    /\ running.cmd = FlutterDoctor

(* C3: for a channel name the mutation sequence is one `flutter channel   *)
(* <name>` call without cwd and nothing else: the log is empty or that    *)
(* one call, and it is that one call once the sequence has returned.      *)
C3_ChannelIssuesOneCommand ==
    OnChannel =>
        /\ Len(cmds) <= 1
        /\ \A i \in 1..Len(cmds) :
              cmds[i] = [cmd |-> ChannelCommand(Unwrap(desired)), cwd |-> None]
        /\ pc = "verifying" => Len(cmds) = 1
        /\ (pc = "done" /\ Last(out).msg = "Status") => Len(cmds) = 1

C3_Witness ==
    /\ pc = "done"
    /\ desired = Some(<<"master">>)
    /\ Last(out).msg = "Status"
    /\ cmds = <<[cmd |-> <<"flutter", " ", "channel", " ", "master">>, cwd |-> None]>>

(* C4 (as claimed): when the locate command of the SDK launcher or of git *)
(* found no match, the run ends after Detecting with the report of a      *)
(* missing tool, no status refresh and no console command.                *)
C4_MissingToolStopsRun ==
    (not_on_path # {} /\ pc # "detecting") =>
        /\ pc = "done"
        /\ cmds = <<>>
        /\ status = NewStatus
        /\ Len(out) = 1
        /\ \/ out[1].msg = "Flutter not found" /\ "flutter" \in not_on_path
           \/ out[1].msg = "Git not found" /\ "git" \in not_on_path

(* C5: a step other than the workaround whose subprocess cannot be        *)
(* launched ends the run at once with "Could not change flutter version"  *)
(* and the cause; an ended run takes no further step, so nothing is       *)
(* issued after it and the step is not tried again.                       *)
LaunchFailedStep == pc = "reconciling" /\ cmds' # cmds /\ running' = NoProc

C5_LaunchFailureAborts ==
    [][/\ pc # "done"
       /\ (LaunchFailedStep /\ Last(cmds').cmd \notin WorkaroundCommands)
             => /\ pc' = "done"
                /\ Last(out').msg = "Could not change flutter version"
                /\ Last(out').arg = Some(<<"CommandFailed">> \o Last(cmds').cmd)]_vars

C5_Witness ==
    /\ pc = "done"
    /\ last_result = "launch_failed"
    /\ Len(cmds) = 6
    /\ Last(cmds).cmd = FlutterClean
    /\ Last(out).msg = "Could not change flutter version"

(* C6 (as claimed): once the subprocess of a step whose failure           *)
(* propagates has exited unsuccessfully, the run has ended with "Could    *)
(* not change flutter version" and that step is the last one issued.      *)
C6_NonzeroExitAborts ==
    (last_result = "nonzero" /\ Plan[step - 1].propagate) =>
        /\ pc = "done"
        /\ Last(out).msg = "Could not change flutter version"
        /\ Len(cmds) = step - 1

(* the resolution the specification describes: the override when it is    *)
(* non-empty after trimming, else the manifest value when non-empty       *)
TrimmedDesiredOf(override, project_version) ==
    IF IsSome(override) /\ Trim(Unwrap(override)) # <<>> THEN override
    ELSE IF IsSome(project_version) /\ Unwrap(project_version) # <<>> THEN project_version
    ELSE None

(* C7 (as claimed): the version the run uses is the override when that is *)
(* non-empty after trimming, else the manifest's version when present and *)
(* non-empty; with neither the run ends with "No project version found"   *)
(* and an empty command log.                                              *)
C7_DesiredResolution ==
    FirstStatusHeld =>
        /\ desired = TrimmedDesiredOf(args.desired_version, status.project_version)
        /\ ~IsSome(TrimmedDesiredOf(args.desired_version, status.project_version))
              => (Last(out).msg = "No project version found" /\ cmds = <<>>)

(* C8: a workaround command is in the log only as its fifth entry, after  *)
(* the four git commands, on the pinned path with reference "3.29.0";     *)
(* with that reference the fifth entry is the workaround (so it precedes  *)
(* flutter doctor); on a channel path it never appears.                   *)
C8_WorkaroundIffRegistered ==
    /\ \A i \in 1..Len(cmds) :
          cmds[i].cmd \in WorkaroundCommands
             => /\ Pinned /\ desired = Some(<<"3.29.0">>)
                /\ i = 5
                /\ cmds[4].cmd = GitReset
    /\ (Pinned /\ Len(cmds) >= 5)
          => (cmds[5].cmd \in WorkaroundCommands <=> desired = Some(<<"3.29.0">>))
    /\ (Len(cmds) >= 6 /\ desired = Some(<<"3.29.0">>)) => cmds[6].cmd = FlutterDoctor

C8_Witness ==
    /\ desired = Some(<<"3.29.0">>)
    /\ Len(cmds) = 6
    /\ cmds[5].cmd = WorkaroundUnix
    /\ cmds[6].cmd = FlutterDoctor

(* C9: the workaround never ends the sequence.  While it is the last      *)
(* command issued the run is still in the sequence whatever its result;   *)
(* the command after it is flutter doctor; and the error the run reports  *)
(* is never the workaround's.                                             *)
C9_WorkaroundFailureIgnored ==
    (Len(cmds) >= 5 /\ cmds[5].cmd \in WorkaroundCommands) =>
        /\ Len(cmds) = 5 => (pc = "reconciling" /\ step \in {5, 6})
        /\ Len(cmds) >= 6 => cmds[6].cmd = FlutterDoctor
        /\ \A i \in 1..Len(out) :
              out[i].msg = "Could not change flutter version"
                 => out[i].arg # Some(<<"CommandFailed">> \o cmds[5].cmd)

C9_Witness ==
    /\ Len(cmds) = 6
    /\ cmds[5].cmd \in WorkaroundCommands
    /\ running.cmd = FlutterDoctor
    /\ last_result = "launch_failed"

(* C10 (as claimed): after a status refresh, flutter_root_path is the     *)
(* parent of flutter_path when both are present.                          *)
C10_RootIsParentOfPath ==
    (pending = <<>> /\ pc \notin {"detecting", "set_cwd"}
       /\ IsSome(status.flutter_path) /\ IsSome(status.flutter_root_path))
      => status.flutter_root_path = Parent(Unwrap(status.flutter_path))

(* the latest message is the status the run printed after its second      *)
(* status.update()                                                        *)
VerifiedDone == pc = "done" /\ updates = 2 /\ Last(out).msg = "Status"

ChangeFailed ==
    \E i \in 1..Len(out) : out[i].msg = "Could not change flutter version"

(* C11: change_flutter_version is called at most once per run; when it    *)
(* returns Ok exactly one more status.update() runs (the second of the    *)
(* run), the run then prints the status and ends, whether or not the new  *)
(* flutter_version equals the desired version; an ended run takes no      *)
(* further step.                                                          *)
C11_RefreshCounts ==
    /\ changes <= 1
    /\ updates <= 1 + changes
    /\ pc = "reconciling" => (changes = 1 /\ updates = 1)
    /\ pc = "verifying" => (changes = 1 /\ updates = 2)
    /\ (pc = "done" /\ changes = 1 /\ ~ChangeFailed)
          => (updates = 2 /\ out = <<Message("Status", None), Message("Status", None)>>)
    /\ (pc = "done" /\ changes = 0) => updates <= 1

C11_OneVerifyingRefresh ==
    /\ []C11_RefreshCounts
    /\ [][pc # "done" /\ (pc = "verifying" => pc' \in {"verifying", "done"})]_vars

C11_Witness ==
    /\ VerifiedDone
    /\ changes = 1
    /\ IsSome(status.flutter_version)
    /\ status.flutter_version # desired

(* C12 (as claimed): a run whose mutation sequence failed has printed the *)
(* failure and, after it, the status.                                     *)
C12_FailureStillReportsStatus ==
    (pc = "done" /\ ChangeFailed) =>
        \E i, j \in 1..Len(out) :
            /\ out[i].msg = "Could not change flutter version"
            /\ out[j].msg = "Status"
            /\ i < j

(* C13 (as claimed): a lookup whose subprocess failed returns None; here  *)
(* for the two locate lookups of Detecting, whose failure not_on_path     *)
(* records.                                                               *)
C13_FailedProbeIsAbsent ==
    /\ "flutter" \in not_on_path => flutter_command = None
    /\ "git" \in not_on_path => git_command = None

(* C14 (as claimed): the working directory is written at most once, only  *)
(* when --workingDirectory is given, and right after the write no         *)
(* subprocess has been started yet.                                       *)
C14_CwdWrittenBeforeAnySubprocess ==
    /\ cwd_writes <= 1
    /\ cwd_writes = 1 => IsSome(args.working_dir)
    /\ (cwd_writes = 1 /\ pc = "loading" /\ pending = StatusJoin) => spawn_calls = 0

(* C14 (amended): the working directory is written at most once, only     *)
(* when --workingDirectory is given; the write comes after the two locate *)
(* lookups of Detecting have ended, while no subprocess is in flight, and *)
(* before any lookup of a status refresh and any console command; no      *)
(* later step changes it.                                                 *)
C14_CwdState ==
    /\ cwd_writes <= 1
    /\ cwd_writes = 1 => (IsSome(args.working_dir) /\ cwd = Unwrap(args.working_dir))
    /\ cwd_writes = 0 => cwd = <<"start">>
    /\ (cwd_writes = 0 /\ IsSome(args.working_dir))
          => (updates = 0 /\ cmds = <<>> /\ spawn_calls <= Len(DetectJoin))

C14_CwdWrittenOnceAfterDetecting ==
    /\ []C14_CwdState
    /\ [][cwd' # cwd => (pc = "set_cwd" /\ Idle /\ updates = 0 /\ cmds = <<>>
                          /\ cwd_writes = 0 /\ cwd_writes' = 1
                          /\ spawn_calls <= Len(DetectJoin))]_vars

C14_Witness ==
    /\ cwd_writes = 1
    /\ cwd = <<"proj">>
    /\ spawn_calls = 2
    /\ pc = "loading"
    /\ pending = StatusJoin

(* a step in which the lookup at the head of the join could not launch    *)
(* its subprocess                                                         *)
LookupLaunchFailedStep ==
    /\ Joining /\ Idle /\ pending # <<>>
    /\ running' = NoProc
    /\ spawn_calls' = spawn_calls + 1

(* C15: status.update() hands control back to run only when all four      *)
(* lookups have run and no subprocess is in flight; every refresh starts  *)
(* all four; and a lookup of the refresh overwrites its field with its    *)
(* own result, with None when its subprocess could not be launched and    *)
(* with a value of its own output otherwise.                              *)
C15_UpdateJoinsAllFour ==
    /\ [][(pc \in {"loading", "verifying"} /\ pc' # pc) => Joined]_vars
    /\ [][(pc' \in {"loading", "verifying"} /\ pc' # pc) => pending' = StatusJoin]_vars
    /\ [][(pc \in {"loading", "verifying"} /\ LookupLaunchFailedStep)
             => status' = [status EXCEPT ![Head(pending)] = None]]_vars
    /\ [][(pc \in {"loading", "verifying"} /\ ~Idle /\ running' = NoProc)
             => \E r \in LookupOutputs(running.for, os) :
                   status' = [status EXCEPT ![running.for] =
                                 LookupValue(running.for, ShellOutput(r), os)]]_vars

C15_Witness ==
    /\ VerifiedDone
    /\ Pinned
    /\ IsSome(cmds[1].cwd)
    /\ status.flutter_path = None
    /\ status.flutter_version = None

(* the console calls that follow the checkout part on the pinned path *)
ProjectPart == SubSeq(cmds, Len(CheckoutCalls(Unwrap(desired), status)
                                  \o WorkaroundCalls(Unwrap(desired), status, os)) + 1,
                      Len(cmds))

(* C16: on the pinned path what follows the four git commands and the     *)
(* optional workaround is flutter doctor, flutter clean, flutter pub      *)
(* upgrade in that order, each without cwd, then `pod install` in ./ios   *)
(* exactly on macos; a sequence that returned Ok issued all of them.      *)
C16_ProjectCommands ==
    (Pinned /\ pc \in {"reconciling", "verifying"}) =>
        LET tail == ProjectPart
            all == <<[cmd |-> FlutterDoctor, cwd |-> None],
                     [cmd |-> FlutterClean, cwd |-> None],
                     [cmd |-> FlutterPubUpgrade, cwd |-> None]>>
                    \o (IF os = "macos"
                        THEN <<[cmd |-> PodInstall, cwd |-> Some(<<".", "/", "ios">>)]>>
                        ELSE <<>>)
        IN  /\ Len(tail) <= Len(all)
            /\ tail = SubSeq(all, 1, Len(tail))
            /\ pc = "verifying" => tail = all

C16_Witness ==
    /\ Pinned /\ pc = "verifying" /\ os = "macos"
    /\ Len(cmds) = 8
    /\ cmds[8] = [cmd |-> PodInstall, cwd |-> Some(<<".", "/", "ios">>)]

IsGit(cmd) == cmd # <<>> /\ Head(cmd) = "git"

(* C17 (as claimed): every git command of the mutation sequence is issued *)
(* with a cwd.                                                            *)
C17_GitRunsInSdkPath ==
    \A i \in 1..Len(cmds) :
        IsGit(cmds[i].cmd) => IsSome(cmds[i].cwd)

(* C18 (as claimed): the run reports "Flutter version is already ..."     *)
(* only with a probed flutter_version that equals the desired version.    *)
C18_AlreadyOnlyWhenProbed ==
    (pc = "done" /\ Last(out).msg = "Flutter version is already")
        => (IsSome(status.flutter_version) /\ status.flutter_version = desired)

Outcomes ==
    {"Flutter not found", "Git not found", "Could not set the working directory",
     "No project version found", "Flutter version is already",
     "Could not change flutter version", "Status"}

(* the states of run, counted down to its return *)
PhaseRank ==
    CASE pc = "detecting"   -> 5
      [] pc = "set_cwd"     -> 4
      [] pc = "loading"     -> 3
      [] pc = "reconciling" -> 2
      [] pc = "verifying"   -> 1
      [] pc = "done"        -> 0

(* what is left to do in the current state of run: two steps (spawn and   *)
(* exit) for each lookup or command not yet run, one for the subprocess   *)
(* in flight                                                              *)
Work ==
    LET busy == IF Idle THEN 0 ELSE 1
    IN  IF Joining THEN 2 * Len(pending) - busy
        ELSE IF pc = "reconciling" THEN 2 * (Len(Plan) + 1 - step) - busy
        ELSE 0

Progress ==
    \/ PhaseRank' < PhaseRank
    \/ PhaseRank' = PhaseRank /\ Work' < Work /\ Work' >= 0

(* a subprocess in flight belongs to the state that awaits it, and its    *)
(* exit is a step of the run                                              *)
Awaited ==
    \/ pc = "reconciling" /\ running.for = "change"
    \/ /\ Joining
       /\ running.for \in DetectLookups \cup StatusLookups
       /\ LookupOutputs(running.for, os) # {}

(* C19: a run that has not returned can always go on: with no subprocess  *)
(* in flight run itself can take a step, and a subprocess in flight is    *)
(* awaited, so that its exit is a step; every step brings the run closer  *)
(* to its return, and a run that has returned has reported one of the     *)
(* terminal outcomes.  So every run ends once its subprocesses exit.      *)
C19_RunTerminates ==
    /\ []((pc # "done" /\ Idle) => ENABLED Next)
    /\ []((pc # "done" /\ ~Idle) => Awaited)
    /\ [](pc = "done" => (Idle /\ out # <<>> /\ Last(out).msg \in Outcomes
                          /\ (Last(out).msg = "Status" => updates = 2)))
    /\ [][Progress]_vars

C19_Witness ==
    /\ VerifiedDone
    /\ Len(cmds) = 8
    /\ last_result = "none"

(* ---------------- get_flutter_version on its own ----------------------- *)

MaxOutputLen == 4

(* what the first lines of a `flutter --version` output are made of *)
VersionSymbols == {"Flutter", "3.19.0", " ", "\t", "\n"}

RECURSIVE Texts(_)
Texts(n) ==
    IF n = 0 THEN {<<>>}
    ELSE LET shorter == Texts(n - 1)
         IN  shorter \cup {Append(t, c) : t \in shorter, c \in VersionSymbols}

(* get_flutter_version is about to parse some text shell_run returned *)
InitVersion ==
    /\ os = "linux"
    /\ args = [working_dir |-> None, desired_version |-> None]
    /\ RunStart
    /\ version_output \in Texts(MaxOutputLen)
    /\ version_result = None
    /\ parse_pc = "called"

(* get_flutter_version, from the text to its return value *)
ParseVersion ==
    /\ parse_pc = "called"
    /\ version_result' = FlutterVersionOf(version_output)
    /\ parse_pc' = "returned"
    /\ UNCHANGED <<os, args, pc, pending, running, flutter_command, git_command,
                   cwd, cwd_writes, status, desired, step, last_result, cmds,
                   spawn_calls, not_on_path, out, updates, changes, version_output>>

NextVersion == ParseVersion

SpecVersion == InitVersion /\ [][NextVersion]_vars

(* the text up to its first line end *)
FirstLine(t) ==
    IF \E i \in 1..Len(t) : t[i] = "\n"
    THEN SubSeq(t, 1, (CHOOSE i \in 1..Len(t) :
                          t[i] = "\n" /\ \A j \in 1..(i - 1) : t[j] # "\n") - 1)
    ELSE t

(* the maximal runs of symbols that are not whitespace, in order *)
RECURSIVE Tokens(_)
Tokens(t) ==
    LET rest == TrimStart(t)
    IN  IF rest = <<>> THEN <<>>
        ELSE LET n == IF \E i \in 1..Len(rest) : rest[i] \in Whitespace
                      THEN (CHOOSE i \in 1..Len(rest) :
                               rest[i] \in Whitespace
                               /\ \A j \in 1..(i - 1) : rest[j] \notin Whitespace) - 1
                      ELSE Len(rest)
             IN  <<SubSeq(rest, 1, n)>> \o Tokens(SubSeq(rest, n + 1, Len(rest)))

SecondToken(t) ==
    LET toks == Tokens(FirstLine(t))
    IN  IF Len(toks) >= 2 THEN Some(toks[2]) ELSE None

(* C20: get_flutter_version returns the second whitespace-separated token *)
(* of the first line of its input, whatever whitespace separates the      *)
(* tokens, None when that line has fewer than two tokens, and never a     *)
(* present but empty version.                                             *)
C20_VersionIsSecondToken ==
    parse_pc = "returned" =>
        /\ version_result = SecondToken(version_output)
        /\ version_result # Some(<<>>)

====
